---- MODULE Spec2Model ----
(***************************************************************************)
(* Model of polka-sync: the scheduler loop SyncByUpdate, the range sync    *)
(* engine log, the checkpoint store loadConf/saveConf and the oracle       *)
(* blockHeights of sync.js, plus the listen callback of index.js that      *)
(* starts them.  One step of the model is one stretch of code between two  *)
(* awaits (the process is single threaded), split at the branches.         *)
(***************************************************************************)
EXTENDS Integers, Naturals, Sequences, FiniteSets, TLC

\* ---------------------------------------------------------------- bounds
MaxHeight == 3       \* block heights 0..MaxHeight (oracle answers, initial checkpoint)
MaxOffset == 2       \* conf.offset drawn from 1..MaxOffset
MaxRestarts == 1     \* restarts of the process by its supervisor
MaxReinit == 2       \* oracle failures (blockchain.reInit calls) per process run

\* ------------------------------------------------------ program constants
PauseSeconds == 1            \* timeOut(1) between two contracts
FetchFailExitCode == 0       \* process.exit(0) after a failed getPastEvents
DefaultExitCode == 0         \* process.exit() with no argument: process.exitCode, unset, is 0
RejectionExitCode == 1       \* the runtime's exit code for an unhandled rejection
Undefined == -1              \* JS undefined / NaN for a block number (heights are >= 0)

\* The three contract bindings, in the order log uses them.
Contracts_swapped == <<"chain-guardian", "private-sale", "trust-pad">>
Contracts == <<"private-sale", "chain-guardian", "trust-pad">>

VARIABLES
    pc,                 \* position of the process
    conf,               \* the in-memory conf object of SyncByUpdate
    disk,               \* the content of public/conf.json
    docReadable,        \* whether public/conf.json exists and parses
    web3,               \* generation of the module-level web3 handle
    bindings,           \* generation of the web3 handle the contracts were loaded with
    latestBlockNum,     \* local of SyncByUpdate / parameter of log
    syncedBlockHeight,  \* local of SyncByUpdate / parameter of log
    from, to, i,        \* locals of log
    k,                  \* which contract of the sub-range log is at (1..3)
    exitCode,           \* argument the process exited with
    exitReason,         \* which failure ended the process
    restarts,           \* restarts so far
    trace,              \* calls made since the oracle query or, inside log, since the
                        \* start of the current sub-range, in order
    ranges,             \* sub-ranges log has fetched since the oracle query, in order:
                        \* fromBlock, toBlock and the checkpoint saved after it
    lastFullTo,         \* toBlock of the last sub-range all three contracts were processed for
    diskAtQuery,        \* disk checkpoint when the oracle was last queried
    outages,            \* consecutive oracle failures up to the current cycle
    outageCkpt,         \* conf.syncedBlockHeight at the first of these failures
    lastHead            \* the height the oracle last answered in this run

vars == <<pc, conf, disk, docReadable, web3, bindings, latestBlockNum,
          syncedBlockHeight, from, to, i, k, exitCode, exitReason, restarts,
          trace, ranges, lastFullTo, diskAtQuery, outages, outageCkpt, lastHead>>

ghosts == <<lastFullTo, diskAtQuery, outages, outageCkpt, lastHead>>
logLocals == <<from, to, i, k>>
cycleLocals == <<latestBlockNum, syncedBlockHeight>>
process == <<exitCode, exitReason, restarts>>
client == <<web3, bindings>>
store == <<disk, docReadable>>

Min(a, b) == IF a < b THEN a ELSE b
Max(a, b) == IF a > b THEN a ELSE b

Heights == 0..MaxHeight
SleepIntervals == {1, 3}    \* conf.sleepInterval: one equal to the pause, one longer
ConfDocs == [syncedBlockHeight : Heights, sleepInterval : SleepIntervals, offset : 1..MaxOffset]
NoConf == [syncedBlockHeight |-> Undefined, sleepInterval |-> Undefined, offset |-> Undefined]

\* ------------------------------------------------------------ pure parts

\* isNaN(parseInt(latestBlockNum))
IsOutage(latest) == latest = Undefined

\* line 64: syncedBlockHeight > latestBlockNum
NeedsClamp_geq(synced, latest) == synced >= latest
NeedsClamp(synced, latest) == synced > latest

\* The value the clamp stores in conf.syncedBlockHeight.
ClampValue_zero(latest, synced) == 0
ClampValue_keep(latest, synced) == synced
ClampValue(latest, synced) == latest

\* const iterationCount = Math.max(0, (latestBlockNum - syncedBlockHeight) / offset):
\* a quotient that is not rounded, kept as numerator and denominator.
IterationCount_floor(latest, synced, offset) ==
    [num |-> Max(0, (latest - synced) \div offset), den |-> 1]
IterationCount(latest, synced, offset) ==
    [num |-> Max(0, latest - synced), den |-> offset]

\* i < iterationCount
LoopContinues(idx, count) == idx * count.den < count.num

\* to before the loop: (latest - synced > offset) ? offset + synced : latest
InitialTo(latest, synced, offset) ==
    IF latest - synced > offset THEN offset + synced ELSE latest

\* to = (from + offset > latestBlockNum) ? latestBlockNum : from + offset
NextTo_unclamped(f, offset, latest) == f + offset
NextTo(f, offset, latest) ==
    IF f + offset > latest THEN latest ELSE f + offset

\* line 221: conf['syncedBlockHeight'] = to, after lines 218-219 gave from and to
\* their next values
SavedValue_from(newFrom, newTo) == newFrom
SavedValue(newFrom, newTo) == newTo

\* blockchain.reInit(): a new client handle, told apart by its generation
ReInit(gen) == gen + 1

\* blockchain.loadContract(web3, address, abi): the binding keeps the client
\* handle it was created with
LoadContract(clientGen) == clientGen

\* ----------------------------------------------------------------- trace
Call(tr, entry) == Append(tr, entry)
Fetches(tr) == SelectSeq(tr, LAMBDA e : e[1] = "getPastEvents")
LogSyncs(tr) == SelectSeq(tr, LAMBDA e : e[1] = "logSync")
Saves(tr) == SelectSeq(tr, LAMBDA e : e[1] = "saveConf")
IdleSleeps(tr) == SelectSeq(tr, LAMBDA e : e[1] = "timeOut" /\ e[3] = "idle")

\* ------------------------------------------------------------------ init
Init ==
    /\ pc = "load"
    /\ conf = NoConf
    /\ disk \in ConfDocs
    /\ docReadable \in BOOLEAN
    /\ web3 = 0
    /\ bindings = LoadContract(web3)
    /\ latestBlockNum = Undefined
    /\ syncedBlockHeight = Undefined
    /\ from = Undefined
    /\ to = Undefined
    /\ i = 0
    /\ k = 1
    /\ exitCode = Undefined
    /\ exitReason = "none"
    /\ restarts = 0
    /\ trace = <<>>
    /\ ranges = <<>>
    /\ lastFullTo = disk.syncedBlockHeight
    /\ diskAtQuery = disk.syncedBlockHeight
    /\ outages = 0
    /\ outageCkpt = Undefined
    /\ lastHead = Undefined

\* process.exit(code)
Exit(code, reason, tr) ==
    /\ pc' = "exited"
    /\ exitCode' = code
    /\ exitReason' = reason
    /\ trace' = Call(tr, <<"exit", code>>)
    /\ UNCHANGED restarts

\* ------------------------------------------------------- checkpoint store

\* loadConf succeeds: conf = JSON.parse(readFileSync(...))
LoadConf ==
    /\ pc = "load"
    /\ docReadable
    /\ conf' = disk
    /\ pc' = "heights"
    /\ UNCHANGED <<store, client, cycleLocals, logLocals, process, trace, ranges, ghosts>>

\* loadConf throws: the promise SyncByUpdate() returned is rejected
LoadConfFail ==
    /\ pc = "load"
    /\ ~docReadable
    /\ pc' = "rejected"
    /\ UNCHANGED <<conf, store, client, cycleLocals, logLocals, process, trace, ranges, ghosts>>

\* index.js does not await SyncByUpdate(), so its try/catch never sees the
\* rejection; what happens to it is the runtime's unhandled-rejection policy.
RejectionCrash ==
    /\ pc = "rejected"
    /\ Exit(RejectionExitCode, "rejection", trace)
    /\ UNCHANGED <<conf, store, client, cycleLocals, logLocals, ranges, ghosts>>

RejectionWarn ==
    /\ pc = "rejected"
    /\ pc' = "serving"
    /\ UNCHANGED <<conf, store, client, cycleLocals, logLocals, process, trace, ranges, ghosts>>

\* ---------------------------------------------------------------- oracle

\* blockHeights, getBlockNumber resolves with h
OracleOk ==
    /\ pc = "heights"
    /\ \E h \in Heights :
        /\ latestBlockNum' = h
        /\ lastHead' = h
        /\ trace' = <<<<"getBlockNumber", "ok", h>>>>
    /\ syncedBlockHeight' = conf.syncedBlockHeight
    /\ pc' = "check"
    /\ diskAtQuery' = disk.syncedBlockHeight
    /\ outages' = IF IsOutage(latestBlockNum) THEN outages ELSE 0
    /\ ranges' = <<>>
    /\ UNCHANGED <<conf, store, client, logLocals, process, lastFullTo, outageCkpt>>

\* OracleFail with a catch block that returns height 0 instead of no height.
OracleFail_zero ==
    /\ pc = "heights"
    /\ web3 < MaxReinit
    /\ latestBlockNum' = 0
    /\ trace' = <<<<"getBlockNumber", "error", Undefined>>>>
    /\ syncedBlockHeight' = conf.syncedBlockHeight
    /\ pc' = "check"
    /\ diskAtQuery' = disk.syncedBlockHeight
    /\ outages' = (IF IsOutage(latestBlockNum) THEN outages ELSE 0) + 1
    /\ outageCkpt' = IF IsOutage(latestBlockNum) /\ outages > 0
                     THEN outageCkpt ELSE conf.syncedBlockHeight
    /\ ranges' = <<>>
    /\ UNCHANGED <<conf, store, client, logLocals, process, lastFullTo, lastHead>>

\* blockHeights, getBlockNumber throws: the object {undefined, syncedBlockHeight}
\* it returns has no latestBlockNum property
OracleFail ==
    /\ pc = "heights"
    /\ web3 < MaxReinit
    /\ latestBlockNum' = Undefined
    /\ trace' = <<<<"getBlockNumber", "error", Undefined>>>>
    /\ syncedBlockHeight' = conf.syncedBlockHeight
    /\ pc' = "check"
    /\ diskAtQuery' = disk.syncedBlockHeight
    /\ outages' = (IF IsOutage(latestBlockNum) THEN outages ELSE 0) + 1
    /\ outageCkpt' = IF IsOutage(latestBlockNum) /\ outages > 0
                     THEN outageCkpt ELSE conf.syncedBlockHeight
    /\ ranges' = <<>>
    /\ UNCHANGED <<conf, store, client, logLocals, process, lastFullTo, lastHead>>

\* ------------------------------------------------------------- scheduler

\* lines 56-61: reInit, timeOut(sleepInterval), continue
Outage ==
    /\ pc = "check"
    /\ IsOutage(latestBlockNum)
    /\ web3' = ReInit(web3)
    /\ trace' = Call(Call(trace, <<"reInit", web3'>>),
                     <<"timeOut", conf.sleepInterval, "outage">>)
    /\ pc' = "outage_sleep"
    /\ UNCHANGED <<conf, store, bindings, cycleLocals, logLocals, process, ranges, ghosts>>

OutageWake ==
    /\ pc = "outage_sleep"
    /\ pc' = "heights"
    /\ UNCHANGED <<conf, store, client, cycleLocals, logLocals, process, trace, ranges, ghosts>>

\* lines 64-70, saveConf succeeds
Clamp ==
    /\ pc = "check"
    /\ ~IsOutage(latestBlockNum)
    /\ NeedsClamp(syncedBlockHeight, latestBlockNum)
    /\ conf' = [conf EXCEPT !.syncedBlockHeight = ClampValue(latestBlockNum, syncedBlockHeight)]
    /\ disk' = conf'
    /\ docReadable' = TRUE
    /\ trace' = Call(trace, <<"saveConf", conf'.syncedBlockHeight, "clamp", "ok">>)
    /\ pc' = "gap"
    /\ UNCHANGED <<client, cycleLocals, logLocals, process, ranges, ghosts>>

\* lines 64-70, writeFileSync throws inside saveConf
ClampFail ==
    /\ pc = "check"
    /\ ~IsOutage(latestBlockNum)
    /\ NeedsClamp(syncedBlockHeight, latestBlockNum)
    /\ conf' = [conf EXCEPT !.syncedBlockHeight = ClampValue(latestBlockNum, syncedBlockHeight)]
    /\ Exit(DefaultExitCode, "save",
            Call(trace, <<"saveConf", conf'.syncedBlockHeight, "clamp", "error">>))
    /\ UNCHANGED <<store, client, cycleLocals, logLocals, ranges, ghosts>>

\* line 64 is false
NoClamp ==
    /\ pc = "check"
    /\ ~IsOutage(latestBlockNum)
    /\ ~NeedsClamp(syncedBlockHeight, latestBlockNum)
    /\ pc' = "gap"
    /\ UNCHANGED <<conf, store, client, cycleLocals, logLocals, process, trace, ranges, ghosts>>

\* lines 72-74 and 121-130: log is called and sets up from and to
EnterLog ==
    /\ pc = "gap"
    /\ syncedBlockHeight < latestBlockNum
    /\ from' = syncedBlockHeight
    /\ to' = InitialTo(latestBlockNum, syncedBlockHeight, conf.offset)
    /\ i' = 0
    /\ k' = 1
    /\ pc' = "loop"
    /\ UNCHANGED <<conf, store, client, cycleLocals, process, trace, ranges, ghosts>>

\* line 72 is false; lines 77-81: timeOut(sleepInterval)
SkipLog ==
    /\ pc = "gap"
    /\ ~(syncedBlockHeight < latestBlockNum)
    /\ trace' = Call(trace, <<"timeOut", conf.sleepInterval, "idle">>)
    /\ pc' = "sleep"
    /\ UNCHANGED <<conf, store, client, cycleLocals, logLocals, process, ranges, ghosts>>

\* line 81 resolves; the while loop starts over
Wake ==
    /\ pc = "sleep"
    /\ pc' = "heights"
    /\ UNCHANGED <<conf, store, client, cycleLocals, logLocals, process, trace, ranges, ghosts>>

\* ----------------------------------------------------- range sync engine

\* line 132, i < iterationCount holds: the iteration starts with privateSale
LoopEnter ==
    /\ pc = "loop"
    /\ LoopContinues(i, IterationCount(latestBlockNum, syncedBlockHeight, conf.offset))
    /\ k' = 1
    /\ trace' = <<>>
    /\ pc' = "fetch"
    /\ UNCHANGED <<conf, store, client, cycleLocals, from, to, i, process, ranges, ghosts>>

\* line 132, i < iterationCount fails: log returns to line 77; timeOut(sleepInterval)
LogReturn_continue ==
    /\ pc = "loop"
    /\ ~LoopContinues(i, IterationCount(latestBlockNum, syncedBlockHeight, conf.offset))
    /\ pc' = "heights"
    /\ UNCHANGED <<conf, store, client, cycleLocals, logLocals, process, trace, ranges, ghosts>>

LogReturn ==
    /\ pc = "loop"
    /\ ~LoopContinues(i, IterationCount(latestBlockNum, syncedBlockHeight, conf.offset))
    /\ trace' = Call(trace, <<"timeOut", conf.sleepInterval, "idle">>)
    /\ pc' = "sleep"
    /\ UNCHANGED <<conf, store, client, cycleLocals, logLocals, process, ranges, ghosts>>

\* AfterContract with a checkpoint write after each of the first two contracts.
AfterContract_partial(c, tr) ==
    IF c < Len(Contracts)
    THEN /\ trace' = Call(tr, <<"timeOut", PauseSeconds, "pause">>)
         /\ pc' = "pause"
         /\ conf' = [conf EXCEPT !.syncedBlockHeight = to]
         /\ disk' = conf'
         /\ docReadable' = TRUE
         /\ UNCHANGED lastFullTo
    ELSE /\ trace' = tr
         /\ pc' = "advance"
         /\ lastFullTo' = to
         /\ UNCHANGED <<conf, store>>

\* What follows the processing of contract c: timeOut(1) after the first two,
\* lines 218-222 after the third.
\* Neither touches conf or public/conf.json.
AfterContract(c, tr) ==
    IF c < Len(Contracts)
    THEN /\ trace' = Call(tr, <<"timeOut", PauseSeconds, "pause">>)
         /\ pc' = "pause"
         /\ UNCHANGED <<conf, store, lastFullTo>>
    ELSE /\ trace' = tr
         /\ pc' = "advance"
         /\ lastFullTo' = to
         /\ UNCHANGED <<conf, store>>

\* The sub-range a getPastEvents call of contract c asks for, noted once per sub-range.
NoteRange(c) ==
    ranges' = IF c = 1
              THEN Append(ranges, [from |-> from, to |-> to, saved |-> Undefined])
              ELSE ranges

\* FetchEmpty with the length test of line 152 as >= 0: logSync is called anyway.
FetchEmpty_logs ==
    /\ pc = "fetch"
    /\ trace' = Call(trace, <<"getPastEvents", Contracts[k], from, to, "empty", bindings>>)
    /\ pc' = "logsync"
    /\ NoteRange(k)
    /\ UNCHANGED <<conf, store, client, cycleLocals, logLocals, process, ghosts>>

\* getPastEvents({fromBlock: from, toBlock: to}) resolves with an empty batch
FetchEmpty ==
    /\ pc = "fetch"
    /\ NoteRange(k)
    /\ AfterContract(k, Call(trace, <<"getPastEvents", Contracts[k], from, to, "empty", bindings>>))
    /\ UNCHANGED <<client, cycleLocals, logLocals, process,
                   diskAtQuery, outages, outageCkpt, lastHead>>

\* getPastEvents resolves with a non-empty batch: logSync is called
FetchBatch ==
    /\ pc = "fetch"
    /\ trace' = Call(trace, <<"getPastEvents", Contracts[k], from, to, "batch", bindings>>)
    /\ pc' = "logsync"
    /\ NoteRange(k)
    /\ UNCHANGED <<conf, store, client, cycleLocals, logLocals, process, ghosts>>

\* getPastEvents rejects: log the error, timeOut(sleepInterval)
FetchFail ==
    /\ pc = "fetch"
    /\ trace' = Call(Call(trace, <<"getPastEvents", Contracts[k], from, to, "error", bindings>>),
                     <<"timeOut", conf.sleepInterval, "fetch_error">>)
    /\ pc' = "fetch_failed"
    /\ NoteRange(k)
    /\ UNCHANGED <<conf, store, client, cycleLocals, logLocals, process, ghosts>>

\* then process.exit(0)
FetchExit ==
    /\ pc = "fetch_failed"
    /\ Exit(FetchFailExitCode, "fetch", trace)
    /\ UNCHANGED <<conf, store, client, cycleLocals, logLocals, ranges, ghosts>>

\* logSync(name, events, web3, duration) resolves
LogSyncOk ==
    /\ pc = "logsync"
    /\ AfterContract(k, Call(trace, <<"logSync", Contracts[k], from, to, "ok", web3>>))
    /\ UNCHANGED <<client, cycleLocals, logLocals, process, ranges,
                   diskAtQuery, outages, outageCkpt, lastHead>>

\* LogSyncFail with a catch block that logs the error and goes on.
LogSyncFail_continue ==
    /\ pc = "logsync"
    /\ AfterContract(k, Call(trace, <<"logSync", Contracts[k], from, to, "error", web3>>))
    /\ UNCHANGED <<client, cycleLocals, logLocals, process, ranges,
                   diskAtQuery, outages, outageCkpt, lastHead>>

\* logSync rejects: process.exit()
LogSyncFail ==
    /\ pc = "logsync"
    /\ Exit(DefaultExitCode, "logSync",
            Call(trace, <<"logSync", Contracts[k], from, to, "error", web3>>))
    /\ UNCHANGED <<conf, store, client, cycleLocals, logLocals, ranges, ghosts>>

\* timeOut(1) resolves: the next contract is fetched
PauseDone ==
    /\ pc = "pause"
    /\ k' = k + 1
    /\ pc' = "fetch"
    /\ UNCHANGED <<conf, store, client, cycleLocals, from, to, i, process, trace, ranges, ghosts>>

\* lines 218-222, saveConf succeeds; i++
Advance ==
    /\ pc = "advance"
    /\ from' = from + conf.offset
    /\ to' = NextTo(from', conf.offset, latestBlockNum)
    /\ conf' = [conf EXCEPT !.syncedBlockHeight = SavedValue(from', to')]
    /\ disk' = conf'
    /\ docReadable' = TRUE
    /\ trace' = Call(trace, <<"saveConf", conf'.syncedBlockHeight, "log", "ok">>)
    /\ i' = i + 1
    /\ pc' = "loop"
    /\ ranges' = [ranges EXCEPT ![Len(ranges)].saved = conf'.syncedBlockHeight]
    /\ UNCHANGED <<client, cycleLocals, k, process, ghosts>>

\* lines 218-222, writeFileSync throws inside saveConf: process.exit()
AdvanceFail ==
    /\ pc = "advance"
    /\ from' = from + conf.offset
    /\ to' = NextTo(from', conf.offset, latestBlockNum)
    /\ conf' = [conf EXCEPT !.syncedBlockHeight = SavedValue(from', to')]
    /\ Exit(DefaultExitCode, "save",
            Call(trace, <<"saveConf", conf'.syncedBlockHeight, "log", "error">>))
    /\ UNCHANGED <<store, client, cycleLocals, i, k, ranges, ghosts>>

\* ------------------------------------------------------------ supervisor

\* The supervisor (docker) starts the process again: module initialisation
\* (lines 33-37) and loadConf.
Restart ==
    /\ pc = "exited"
    /\ restarts < MaxRestarts
    /\ restarts' = restarts + 1
    /\ pc' = "load"
    /\ conf' = NoConf
    /\ web3' = 0
    /\ bindings' = LoadContract(web3')
    /\ latestBlockNum' = Undefined
    /\ syncedBlockHeight' = Undefined
    /\ from' = Undefined
    /\ to' = Undefined
    /\ i' = 0
    /\ k' = 1
    /\ exitCode' = Undefined
    /\ exitReason' = "none"
    /\ trace' = <<>>
    /\ outages' = 0
    /\ outageCkpt' = Undefined
    /\ lastHead' = Undefined
    /\ ranges' = <<>>
    /\ diskAtQuery' = disk.syncedBlockHeight
    /\ UNCHANGED <<store, lastFullTo>>

Next ==
    \/ LoadConf \/ LoadConfFail \/ RejectionCrash \/ RejectionWarn
    \/ OracleOk \/ OracleFail
    \/ Outage \/ OutageWake \/ Clamp \/ ClampFail \/ NoClamp
    \/ EnterLog \/ SkipLog \/ Wake
    \/ LoopEnter \/ LogReturn
    \/ FetchEmpty \/ FetchBatch \/ FetchFail \/ FetchExit
    \/ LogSyncOk \/ LogSyncFail \/ PauseDone
    \/ Advance \/ AdvanceFail
    \/ Restart

Spec == Init /\ [][Next]_vars

\* ================================================================ claims

Last(seq) == seq[Len(seq)]
CeilDiv(a, b) == (a + b - 1) \div b
OracleAnswered == ~IsOutage(latestBlockNum)

\* C1: every checkpoint log saves after processing a sub-range [from,to]
\* equals the toBlock its getPastEvents calls used.
CheckpointEqualsSubRangeTo ==
    \A j \in DOMAIN ranges :
        ranges[j].saved # Undefined => ranges[j].saved = ranges[j].to

\* C2: when the process terminates because a fetch or a logSync failed in
\* sub-range [from,to], the persisted checkpoint equals from.
FailedSubRangeLeavesCheckpointAtFrom ==
    (pc = "exited" /\ exitReason \in {"fetch", "logSync"}) =>
        disk.syncedBlockHeight = from

\* C3: the persisted checkpoint never exceeds the upper bound of the last
\* sub-range for which all three contracts were processed, so that a restart
\* skips no sub-range.
NoSubRangeSkipped == disk.syncedBlockHeight <= lastFullTo

\* C4: the (fromBlock,toBlock) pairs log passes to getPastEvents start at
\* syncedBlockHeight, each later from is the previous to, every pair has
\* from <= to = min(from + offset, latestBlockNum), the three contracts of a
\* sub-range are asked for the same pair, and when log has returned the
\* last to is latestBlockNum.
SubRangesContiguous ==
    /\ \A j \in DOMAIN ranges :
        /\ ranges[j].from <= ranges[j].to
        /\ ranges[j].to = Min(ranges[j].from + conf.offset, latestBlockNum)
    /\ ranges # <<>> => ranges[1].from = syncedBlockHeight
    /\ \A j \in 2..Len(ranges) : ranges[j].from = ranges[j - 1].to
    /\ \A j \in DOMAIN trace :
        trace[j][1] = "getPastEvents" =>
            /\ ranges # <<>>
            /\ trace[j][3] = Last(ranges).from
            /\ trace[j][4] = Last(ranges).to
    /\ (pc = "sleep" /\ syncedBlockHeight < latestBlockNum) =>
        /\ ranges # <<>>
        /\ Last(ranges).to = latestBlockNum

SubRangesContiguousWitness ==
    /\ pc = "sleep"
    /\ Len(ranges) >= 2
    /\ (latestBlockNum - syncedBlockHeight) % conf.offset # 0
    /\ Len(Fetches(trace)) = Len(Contracts)

\* C5: the number of sub-ranges one scheduler cycle processes is
\* ceil((latestBlockNum - syncedBlockHeight) / offset), zero when the two
\* heights are equal, and each of them ends with a checkpoint write.
IterationsAreCeil ==
    (pc = "sleep" /\ OracleAnswered) =>
        /\ Len(ranges) = CeilDiv(Max(0, latestBlockNum - syncedBlockHeight), conf.offset)
        /\ \A j \in DOMAIN ranges : ranges[j].saved # Undefined
        /\ ranges # <<>> => i = Len(ranges)

IterationsAreCeilWitness ==
    /\ pc = "sleep"
    /\ OracleAnswered
    /\ latestBlockNum - syncedBlockHeight = 3
    /\ conf.offset = 2
    /\ Len(ranges) = 2

\* C6: in a cycle where the oracle answers a height below the checkpoint no
\* getPastEvents or logSync call is made, and at the end of the cycle the
\* checkpoint, in memory and on disk, equals the oracle height.
ClampProperty ==
    (OracleAnswered /\ latestBlockNum < syncedBlockHeight) =>
        /\ ranges = <<>>
        /\ Fetches(trace) = <<>>
        /\ LogSyncs(trace) = <<>>
        /\ pc = "sleep" =>
            /\ conf.syncedBlockHeight = latestBlockNum
            /\ disk.syncedBlockHeight = latestBlockNum

ClampPropertyWitness ==
    /\ pc = "sleep"
    /\ OracleAnswered
    /\ latestBlockNum < syncedBlockHeight
    /\ diskAtQuery = syncedBlockHeight
    /\ disk.syncedBlockHeight = latestBlockNum

\* C7 as stated: after log returns successfully the scheduler starts its
\* next cycle without sleeping sleepInterval.
SchedulerLoopsImmediatelyAfterLog ==
    ~(pc = "sleep" /\ syncedBlockHeight < latestBlockNum)

\* C7 amended: every cycle in which the oracle answered, the one in which
\* log returned successfully included, ends with exactly one idle sleep of
\* sleepInterval as its last call before the next oracle query.
SleepAfterEveryCycle ==
    (pc = "heights" /\ OracleAnswered) =>
        /\ trace # <<>>
        /\ Last(trace) = <<"timeOut", conf.sleepInterval, "idle">>
        /\ Len(IdleSleeps(trace)) = 1

SleepAfterLogWitness ==
    /\ pc = "heights"
    /\ syncedBlockHeight < latestBlockNum
    /\ ranges # <<>>
    /\ Last(ranges).saved = latestBlockNum
    /\ Last(trace) = <<"timeOut", conf.sleepInterval, "idle">>

\* C8: whenever the process terminates because of an event-fetch failure, a
\* logSync failure or a checkpoint-write failure, its exit code is non-zero.
FatalExitIsNonZero ==
    (pc = "exited" /\ exitReason \in {"fetch", "logSync", "save"}) => exitCode # 0

\* C9: in a cycle where getBlockNumber fails the checkpoint is unchanged in
\* memory and on disk, nothing is fetched, logged or saved, the process does
\* not exit, the client is reinitialized and the loop sleeps sleepInterval
\* before the next query; after any number of such cycles the first
\* sub-range fetched starts at the checkpoint of before the outage.
OutageIsTransient ==
    /\ (trace # <<>> /\ trace[1][1] = "getBlockNumber" /\ trace[1][2] = "error") =>
        /\ conf.syncedBlockHeight = syncedBlockHeight
        /\ disk.syncedBlockHeight = diskAtQuery
        /\ conf.syncedBlockHeight = outageCkpt
        /\ ranges = <<>>
        /\ Fetches(trace) = <<>> /\ LogSyncs(trace) = <<>> /\ Saves(trace) = <<>>
        /\ pc \in {"check", "outage_sleep", "heights"}
        /\ pc # "check" =>
            trace = << <<"getBlockNumber", "error", Undefined>>,
                       <<"reInit", web3>>,
                       <<"timeOut", conf.sleepInterval, "outage">> >>
    /\ (outages > 0 /\ OracleAnswered /\ ranges # <<>>) =>
        ranges[1].from = outageCkpt

OutageIsTransientWitness ==
    /\ outages >= 2
    /\ OracleAnswered
    /\ ranges # <<>>
    /\ ranges[1].from = outageCkpt
    /\ web3 >= 2

\* C10: when loadConf fails at startup the process terminates; it does not
\* stay up as a server that never syncs.
LoadFailureTerminates == ~docReadable => pc # "serving"

\* C11: in a cycle where the oracle height equals the checkpoint there is no
\* getPastEvents or logSync call and no checkpoint write, in memory or on
\* disk, the process does not exit, and the cycle is the oracle query
\* followed by exactly one sleep of sleepInterval.
CaughtUpProperty ==
    (OracleAnswered /\ latestBlockNum = syncedBlockHeight) =>
        /\ ranges = <<>>
        /\ Fetches(trace) = <<>> /\ LogSyncs(trace) = <<>> /\ Saves(trace) = <<>>
        /\ conf.syncedBlockHeight = syncedBlockHeight
        /\ disk.syncedBlockHeight = diskAtQuery
        /\ pc \in {"check", "gap", "sleep", "heights"}
        /\ pc \in {"sleep", "heights"} =>
            trace = << <<"getBlockNumber", "ok", latestBlockNum>>,
                       <<"timeOut", conf.sleepInterval, "idle">> >>

CaughtUpWitness ==
    /\ pc = "heights"
    /\ OracleAnswered
    /\ latestBlockNum = syncedBlockHeight
    /\ Len(IdleSleeps(trace)) = 1

\* The checkpoint when the sub-range log is working on started: the one the
\* cycle began with, or the one saved after the previous sub-range.
CheckpointAtSubRangeStart ==
    IF i = 0 THEN syncedBlockHeight ELSE ranges[i].saved

InsideSubRange ==
    \/ pc \in {"fetch", "logsync", "pause", "fetch_failed", "advance"}
    \/ pc = "exited" /\ exitReason \in {"fetch", "logSync"}

\* C12: from the first getPastEvents call of a sub-range until its last
\* contract is processed, and in a process that died in between, the
\* checkpoint in memory and on disk is the one the sub-range started with.
NoPartialAdvance ==
    InsideSubRange =>
        /\ conf.syncedBlockHeight = CheckpointAtSubRangeStart
        /\ disk.syncedBlockHeight = CheckpointAtSubRangeStart

NoPartialAdvanceWitness ==
    /\ pc = "exited"
    /\ exitReason = "fetch"
    /\ k = 2
    /\ i = 1
    /\ Len(ranges) = 2
    /\ disk.syncedBlockHeight = ranges[1].saved

\* C13: when log has returned, for syncedBlockHeight < latestBlockNum, the
\* checkpoint in memory and on disk equals latestBlockNum, also when the gap
\* is not a multiple of offset.
FinalCheckpointIsHead ==
    (pc = "sleep" /\ OracleAnswered /\ syncedBlockHeight < latestBlockNum) =>
        /\ disk.syncedBlockHeight = latestBlockNum
        /\ conf.syncedBlockHeight = latestBlockNum
        /\ ranges # <<>>
        /\ Last(ranges).saved = latestBlockNum

FinalCheckpointIsHeadWitness ==
    /\ pc = "sleep"
    /\ syncedBlockHeight < latestBlockNum
    /\ (latestBlockNum - syncedBlockHeight) % conf.offset # 0
    /\ ranges = << [from |-> syncedBlockHeight,
                    to |-> syncedBlockHeight + conf.offset,
                    saved |-> latestBlockNum],
                   [from |-> syncedBlockHeight + conf.offset,
                    to |-> latestBlockNum,
                    saved |-> latestBlockNum] >>
    /\ disk.syncedBlockHeight = latestBlockNum

\* C14: every checkpoint written, by log or by the clamp, is at most the
\* height the oracle last answered; while the process runs, the checkpoint
\* in memory or on disk is above that height only between an oracle answer
\* below the checkpoint and the clamp of the same cycle.
CheckpointBelowHead ==
    /\ \A j \in DOMAIN trace :
        (trace[j][1] = "saveConf" /\ trace[j][4] = "ok") =>
            /\ lastHead # Undefined
            /\ trace[j][2] <= lastHead
    /\ (pc # "exited" /\ lastHead # Undefined
          /\ (conf.syncedBlockHeight > lastHead \/ disk.syncedBlockHeight > lastHead)) =>
        /\ pc = "check"
        /\ latestBlockNum = lastHead
        /\ NeedsClamp(syncedBlockHeight, latestBlockNum)
        /\ Saves(trace) = <<>>

CheckpointBelowHeadWitness ==
    /\ pc = "loop"
    /\ Len(Saves(trace)) = 1
    /\ Last(trace) = <<"saveConf", disk.syncedBlockHeight, "log", "ok">>
    /\ disk.syncedBlockHeight < lastHead
    /\ disk.syncedBlockHeight > diskAtQuery

\* The contracts whose getPastEvents calls the trace of the current
\* sub-range holds, in call order.
FetchedNames == [j \in DOMAIN Fetches(trace) |-> Fetches(trace)[j][2]]

\* C15: within a sub-range the contracts are fetched in the order
\* private-sale, chain-guardian, trust-pad, each contract's logSync is the
\* call right after its fetch and is over before the next fetch; across
\* sub-ranges fromBlock strictly increases and a sub-range is fetched only
\* after the checkpoint write of the one before it.
FixedOrder ==
    /\ FetchedNames = SubSeq(<<"private-sale", "chain-guardian", "trust-pad">>,
                             1, Len(FetchedNames))
    /\ \A j \in DOMAIN trace :
        trace[j][1] = "logSync" =>
            /\ j > 1
            /\ trace[j - 1][1] = "getPastEvents"
            /\ trace[j - 1][2] = trace[j][2]
    /\ pc = "fetch" => Len(FetchedNames) = k - 1
    /\ pc = "logsync" => Last(trace)[1] = "getPastEvents" /\ Last(trace)[2] = Contracts[k]
    /\ \A j \in 2..Len(ranges) :
        /\ ranges[j].from > ranges[j - 1].from
        /\ ranges[j - 1].saved # Undefined

FixedOrderWitness ==
    /\ pc = "advance"
    /\ Len(ranges) = 2
    /\ FetchedNames = <<"private-sale", "chain-guardian", "trust-pad">>
    /\ Len(LogSyncs(trace)) = 3

\* C16: logSync is called once for each contract of a sub-range whose
\* getPastEvents call returned a non-empty batch, right after that call and
\* with that contract's name and sub-range, and it is not called for a
\* contract whose batch was empty or whose fetch failed.
LogSyncOncePerBatch ==
    /\ \A j \in DOMAIN trace :
        trace[j][1] = "getPastEvents" =>
            IF trace[j][5] = "batch"
            THEN IF j = Len(trace)
                 THEN pc = "logsync" /\ Contracts[k] = trace[j][2]
                 ELSE /\ trace[j + 1][1] = "logSync"
                      /\ trace[j + 1][2] = trace[j][2]
                      /\ trace[j + 1][3] = trace[j][3]
                      /\ trace[j + 1][4] = trace[j][4]
            ELSE /\ j < Len(trace) => trace[j + 1][1] # "logSync"
                 /\ j = Len(trace) => pc # "logsync"
    /\ \A j \in DOMAIN trace :
        trace[j][1] = "logSync" =>
            /\ j > 1
            /\ trace[j - 1][1] = "getPastEvents"
            /\ trace[j - 1][5] = "batch"
    /\ \A c \in DOMAIN Contracts :
        Len(SelectSeq(trace, LAMBDA e : e[1] = "logSync" /\ e[2] = Contracts[c])) <= 1

LogSyncOncePerBatchWitness ==
    /\ pc = "advance"
    /\ Len(Fetches(trace)) = 3
    /\ Fetches(trace)[1][5] = "empty"
    /\ Fetches(trace)[2][5] = "batch"
    /\ Fetches(trace)[3][5] = "empty"
    /\ Len(LogSyncs(trace)) = 1
    /\ LogSyncs(trace)[1][2] = "chain-guardian"

\* A call of the trace that failed: a rejected getPastEvents or logSync, or a
\* saveConf whose write threw.
IsFailure(e) ==
    \/ e[1] \in {"getPastEvents", "logSync"} /\ e[5] = "error"
    \/ e[1] = "saveConf" /\ e[4] = "error"

\* C17: once a getPastEvents call, a logSync call or a checkpoint write has
\* failed, the process makes no further getPastEvents, logSync or saveConf
\* call in that run: it is terminated, or (after a fetch failure) in the
\* sleep whose only continuation is process.exit.
FailureIsFatal ==
    \A j \in DOMAIN trace :
        IsFailure(trace[j]) =>
            /\ pc \in {"fetch_failed", "exited"}
            /\ pc = "fetch_failed" => ENABLED FetchExit
            /\ pc = "exited" => Last(trace)[1] = "exit"
            /\ \A m \in (j + 1)..Len(trace) :
                \/ trace[m][1] = "exit" /\ m = Len(trace)
                \/ /\ trace[m][1] = "timeOut"
                   /\ trace[m][3] = "fetch_error"
                   /\ m = j + 1
                   /\ trace[j][1] = "getPastEvents"

FailureIsFatalWitness ==
    /\ pc = "exited"
    /\ exitReason = "logSync"
    /\ k = 2
    /\ Len(trace) >= 2
    /\ IsFailure(trace[Len(trace) - 1])

\* ------------------------------------------------------------- liveness

\* A run of one process whose checkpoint document loads: the supervisor and
\* the load failure are left out, every step of SyncByUpdate and log, the
\* failures included, stays.
LiveInit == Init /\ docReadable

LiveNext ==
    \/ LoadConf
    \/ OracleOk \/ OracleFail
    \/ Outage \/ OutageWake \/ Clamp \/ ClampFail \/ NoClamp
    \/ EnterLog \/ SkipLog \/ Wake
    \/ LoopEnter \/ LogReturn
    \/ FetchEmpty \/ FetchBatch \/ FetchFail \/ FetchExit
    \/ LogSyncOk \/ LogSyncFail \/ PauseDone
    \/ Advance \/ AdvanceFail

\* The event loop resumes the one pending continuation of SyncByUpdate
\* whenever its awaited promise settles: the process takes a step whenever
\* it can.
LiveSpec == LiveInit /\ [][LiveNext]_vars /\ WF_vars(LiveNext)

\* From now on the oracle answers h and nothing fails: every later failure
\* or other answer leaves this predicate.
StableAt(h) ==
    /\ latestBlockNum = h
    /\ pc \notin {"fetch_failed", "exited", "rejected", "serving"}

\* The scheduler only queries the oracle and sleeps, with the checkpoint at h.
IdleAt(h) ==
    /\ disk.syncedBlockHeight = h
    /\ conf.syncedBlockHeight = h
    /\ pc \in {"heights", "check", "gap", "sleep"}
    /\ Fetches(trace) = <<>> /\ LogSyncs(trace) = <<>> /\ Saves(trace) = <<>>

\* C18: if from some point on the oracle always answers the same height h
\* and no fetch, logSync or checkpoint write fails, then eventually the
\* checkpoint equals h for good and the scheduler only alternates oracle
\* queries and sleeps.
EventuallySynced ==
    \A h \in Heights : (<>[]StableAt(h)) => <>[]IdleAt(h)

EventuallySyncedWitness ==
    /\ pc = "sleep"
    /\ latestBlockNum = syncedBlockHeight
    /\ IdleAt(latestBlockNum)
    /\ i > 0
    /\ lastFullTo = latestBlockNum

\* C19: every getPastEvents call goes through a contract binding created
\* from the client handle that is current at the call, the handle logSync
\* is given for that batch, also after the client was reinitialized.
BindingsUseCurrentClient ==
    \A j \in DOMAIN trace :
        trace[j][1] = "getPastEvents" =>
            /\ trace[j][6] = web3
            /\ (j < Len(trace) /\ trace[j + 1][1] = "logSync") =>
                trace[j + 1][6] = trace[j][6]

\* C20: a step lowers the persisted checkpoint only if it is the clamp, which
\* sets it to an oracle height below it; every write of log leaves it equal
\* or higher.
MonotoneExceptClamp ==
    [][ /\ disk'.syncedBlockHeight < disk.syncedBlockHeight =>
            /\ pc = "check"
            /\ OracleAnswered
            /\ latestBlockNum < syncedBlockHeight
            /\ disk.syncedBlockHeight = syncedBlockHeight
            /\ disk'.syncedBlockHeight = latestBlockNum
        /\ (pc = "advance" /\ pc' = "loop") =>
            /\ disk'.syncedBlockHeight >= disk.syncedBlockHeight
            /\ disk'.syncedBlockHeight = Last(ranges').saved
      ]_vars

MonotoneExceptClampWitness ==
    /\ pc = "gap"
    /\ Len(Saves(trace)) = 1
    /\ Last(trace) = <<"saveConf", latestBlockNum, "clamp", "ok">>
    /\ disk.syncedBlockHeight < diskAtQuery
    /\ restarts = 1
    /\ lastFullTo > disk.syncedBlockHeight

====
